---- MODULE Spec2Model ----
(***************************************************************************)
(* The scheduler of the telemuze listener (src/listener.py): the FIFO     *)
(* queue, the global and per-user semaphores, the dispatch loop           *)
(* Scheduler.run, the per-job task Scheduler._run_job, the cancel button  *)
(* handler and shutdown.  Code between two awaits is one atomic step,    *)
(* as under asyncio; every external call ends with one of its outcomes.   *)
(***************************************************************************)
EXTENDS Naturals, Integers, Sequences, FiniteSets, TLC

(* ------------------------------ bounds --------------------------------- *)
\* number of media messages handled (jobs created) in a behaviour
MaxJobs == 2
\* the same where no external call fails (FifoSpec)
MaxFifoJobs == 3
\* largest value MAX_COMPOSERS is drawn from where no external call fails
MaxFifoLimit == 3
\* number of distinct Telegram users
NumUsers == 2
\* largest value the two concurrency settings are drawn from
MaxLimit == 2
\* failed connection attempts that fit into SSH_CONNECT_TIMEOUT_SEC
MaxConnectAttempts == 2
\* number of cancel-button callbacks that reach a live job in a behaviour
MaxCancelReqs == 1

\* number of external calls that end other than nominally in a behaviour
MaxFaults == 2
\* number of worker names destroy_composer is called with
NumWorkers == 2
\* number of destroy_composer calls made with one worker name
MaxDestroyCalls == 3
\* CACHE_WARM_INTERVAL_HOURS, counted in sleeps of the cache warmer (60 s)
WarmInterval == 2
\* number of sleeps of the cache warmer that the clock advances by
MaxTicks == 4
\* number of warming cycles started in a behaviour
MaxCycles == 2
\* number of jobs created in a behaviour with the cache warmer
MaxWarmJobs == 2
\* characters of a job id that its worker name keeps (8 in listener.py:382)
NameLen == 1
\* characters of a job id after those (a uuid4 string has 36 in all)
RestLen == 1

\* the job ids; those above MaxJobs are submitted under FifoSpec only
JobIds == 1..MaxFifoJobs
\* the ids of the jobs submitted under Spec
SpecJobIds == 1..MaxJobs
\* the ids of the jobs submitted under WarmSpec
WarmJobIds == 1..MaxWarmJobs
UserIds == 1..NumUsers
WorkerNames == 1..NumWorkers

\* no call of Scheduler.cancel_job has been made
NoCall == [job |-> 0, ok |-> FALSE]
\* no cancel request has been made; user 0 also stands for a direct call
NoRequest == [job |-> 0, user |-> 0]

\* a user_sems entry that has not been created yet (key not in the dict)
Absent == 0 - 1

VARIABLES
    MAX_COMPOSERS,        \* listener.py:119, drawn at start-up
    PER_USER_CONCURRENCY, \* listener.py:120, drawn at start-up
    queue,                \* Scheduler.queue: sequence of job ids
    jobs,                 \* Scheduler.jobs: set of live job ids
    tasks,                \* Scheduler.tasks: set of job ids with a task handle
    global_sem,           \* Scheduler.global_sem: its value
    user_sems,            \* Scheduler.user_sems: user -> value, or Absent
    stop_event,           \* Scheduler._stop_event
    disp,                 \* position of Scheduler.run: [pc, job]
    cancel_event,         \* set of jobs whose Job.cancel_event is set
    user_id,              \* Job.user_id (0 before the job exists)
    vm_name,              \* Job.vm_name is non-empty
    vm_ip,                \* Job.vm_ip is set
    pc,                   \* position of the job: queue, dispatcher or _run_job
    status,               \* texts written to the job's status message, in order
    ops,                  \* external calls issued for the job, in order
    exc,                  \* exception raised inside _run_job ("none" if none)
    json_result,          \* json_result of _run_job ("none" before it is bound)
    elapsed,              \* failed connection attempts of connect_ssh_with_retries
    proc,                 \* how the remote composer process of the job ended
    cancel_at,            \* where the job was when its cancel_event was first set
    late,                 \* jobs submitted after shutdown() was called
    ncancel,              \* cancel callbacks that reached a live job so far
    cancel_ret,           \* the last call of Scheduler.cancel_job: [job, ok]
    last_req,             \* the last cancel request for a live job: [job, user]
    nrefused,             \* cancel callbacks for a live job by another user so far
    nfault,               \* external calls that ended other than nominally so far
    COMPOSER_IP_OVERRIDE, \* listener.py:70 is set
    deployed,             \* worker names that have a deployment on the grid
    provisioned,          \* worker names tfcmd.deploy_vm ever succeeded for
    destroy_calls,        \* calls of destroy_composer so far, by worker name
    destroy_raised,       \* some call of destroy_composer raised to its caller
    CACHE_WARM_DEPLOY,    \* listener.py:135
    last_cache_warm_ts,   \* Scheduler.last_cache_warm_ts
    now,                  \* time.time(), counted in sleeps of the cache warmer
    warmer,               \* cache_warmer_task: its position and locals
    ncycles,              \* warming cycles started so far
    last_dispatch_ts,     \* time.time() when Scheduler.run last created a task
    model,                \* Job.model of the job handle_media created
    preliminary_message_id, \* Job.preliminary_message_id (0 for None)
    preliminary_task,     \* the task running _update_preliminary_transcript
    transcript_text,      \* the text the cat of the transcript returned
    bot_calls,            \* calls of bot methods that send or edit, in order
    reply_pc,             \* position of handle_media / _send_transcript_reply
    job_id                \* Job.job_id, the uuid4 string handle_media drew

vars == <<MAX_COMPOSERS, PER_USER_CONCURRENCY, queue, jobs, tasks, global_sem,
          user_sems, stop_event, disp, cancel_event, user_id, vm_name, vm_ip,
          pc, status, ops, exc, json_result, elapsed, proc, cancel_at, late,
          ncancel, cancel_ret, last_req, nrefused, nfault,
          COMPOSER_IP_OVERRIDE, deployed, provisioned, destroy_calls,
          destroy_raised, CACHE_WARM_DEPLOY, last_cache_warm_ts, now, warmer,
          ncycles, last_dispatch_ts, model, preliminary_message_id,
          preliminary_task, transcript_text, bot_calls, reply_pc, job_id>>

config == <<MAX_COMPOSERS, PER_USER_CONCURRENCY>>
sched == <<queue, jobs, tasks, global_sem, user_sems>>
locals == <<vm_name, vm_ip, exc, json_result, elapsed, proc>>
requests == <<cancel_ret, last_req, nrefused>>
grid == <<COMPOSER_IP_OVERRIDE, deployed, provisioned, destroy_calls,
          destroy_raised>>

warm == <<CACHE_WARM_DEPLOY, last_cache_warm_ts, now, warmer, ncycles>>

\* the job handle_media builds and the delivery of its transcript
reply == <<model, preliminary_message_id, preliminary_task, transcript_text,
           bot_calls, reply_pc>>

\* what no step of the scheduler, of a job or of the handlers writes
outside == <<grid, warm, reply, job_id>>

\* what no step of the cache warmer, of the clock or of the grid writes
listener == <<config, queue, jobs, tasks, global_sem, user_sems, stop_event,
              disp, cancel_event, user_id, vm_name, vm_ip, pc, status, ops, exc,
              json_result, elapsed, proc, cancel_at, late, ncancel, cancel_ret,
              last_req, nrefused, nfault, last_dispatch_ts, job_id>>

(* ------------------------------ helpers -------------------------------- *)
RECURSIVE Count(_, _)
Count(s, x) ==
    IF s = <<>> THEN 0
    ELSE (IF Head(s) = x THEN 1 ELSE 0) + Count(Tail(s), x)

Has(s, x) == \E i \in 1..Len(s) : s[i] = x

\* the texts _send_error_reply can be called with (after "Failed")
FailedTexts == {"Failed:timeout", "Failed:internal",
                "Failed:transcription", "Failed:no_transcript",
                "Failed:E_FFMPEG_TIMEOUT", "Failed:E_WHISPERX"}

IsTerminal(t) == t \in ({"Done", "Canceled"} \cup FailedTexts)

\* the terminal outcomes reported for job j, in order
Terminals(j) == SelectSeq(status[j], IsTerminal)

\* positions of a job whose _run_job task has been created and has not
\* yet run to the end of its outer finally block
RunnerPcs == {"start", "provisioning", "connecting", "mkdir", "uploading",
              "transcribing", "fetching", "delivering", "inner_finally",
              "outer_finally", "destroying"}

Running == {j \in JobIds : pc[j] \in RunnerPcs}

\* how a remote process ends: asyncio.wait_for times out, or the process
\* exits with a status and a last non-empty line of output ("ok": true with a
\* text_path, true without one, false with or without an error string; no
\* line at all; a line that is not JSON)
ProcRecord(t, x, l, e) == [timed_out |-> t, exit |-> x, line |-> l, error |-> e]

\* no composer process has ended for the job
NoProc == ProcRecord(FALSE, 0, "unstarted", "none")

\* composer.py main: the success line with exit status 0, and the two failure
\* lines of its except clauses with exit status 124 and 1
ComposerResults ==
    {ProcRecord(FALSE, 0, "ok", "none"),
     ProcRecord(FALSE, 124, "ok_false", "E_FFMPEG_TIMEOUT"),
     ProcRecord(FALSE, 1, "ok_false", "E_WHISPERX")}

\* the other ends of the remote command that _run_job provides for
OtherResults ==
    {ProcRecord(TRUE, 0, "blank", "none"),
     ProcRecord(FALSE, 0, "blank", "none"),
     ProcRecord(FALSE, 0, "garbage", "none"),
     ProcRecord(FALSE, 0, "ok_nopath", "none"),
     ProcRecord(FALSE, 0, "ok_false", "none"),
     ProcRecord(FALSE, 0, "ok_false", "E_WHISPERX")}

(* ------------------------- Scheduler primitives ------------------------ *)
\* mutant of sem_locked: a semaphore that never blocks
sem_never_locked(v) == FALSE

\* asyncio.Semaphore.locked()
sem_locked(v) == v = 0

\* mutant of sem_acquire: the slot is not taken
sem_acquire_free(v) == v

\* asyncio.Semaphore.acquire() once it does not block
sem_acquire(v) == v - 1

\* mutant of sem_release: the released slot is lost
sem_release_lost(v) == v

\* mutant of sem_release: the slot is given back twice
sem_release_twice(v) == v + 2

\* asyncio.Semaphore.release()
sem_release(v) == v + 1

\* mutant of get_user_sem: the user's semaphore is sized by the global limit
get_user_sem_global(sems, u) ==
    IF sems[u] = Absent THEN [sems EXCEPT ![u] = MAX_COMPOSERS] ELSE sems

\* Scheduler.get_user_sem: create the user's semaphore on first use
get_user_sem(sems, u) ==
    IF sems[u] = Absent THEN [sems EXCEPT ![u] = PER_USER_CONCURRENCY] ELSE sems

\* job.cancel_event.is_set()
cancel_is_set(j) == j \in cancel_event

\* Scheduler._set_status: job.status_message_id is always set by handle_media
set_status(j, text) == [status EXCEPT ![j] = Append(@, text)]

\* Scheduler._send_error_reply: one "Failed" edit carrying the text
send_error_reply(j, text) == [status EXCEPT ![j] = Append(@, text)]

\* the while condition of Scheduler.run, evaluated after an iteration
LoopTop == IF stop_event THEN [pc |-> "stopped", job |-> 0]
           ELSE [pc |-> "get", job |-> 0]

\* the two except clauses of _run_job: the reply text for an exception
except_text(e) == IF e = "TimeoutError" THEN "Failed:timeout" ELSE "Failed:internal"

\* mutant of should_destroy: destroy only a worker that returned an address
should_destroy_if_provisioned(j) == vm_ip[j]

\* the test guarding destroy_composer in the outer finally of _run_job
should_destroy(j) == vm_name[j]

(* ------------------------------ the grid ------------------------------- *)
\* nothing is deployed and destroy_composer has not been called
GridInit ==
    /\ deployed = {}
    /\ provisioned = {}
    /\ destroy_calls = [n \in WorkerNames |-> 0]
    /\ destroy_raised = FALSE

\* what tfcmd.cancel_vm can end with: it returns and the deployment is gone,
\* or it raises (unknown name, grid not reachable) and changes nothing
CancelVmResults == {"done", "error"}

cancel_vm(n, o) == IF o = "done" THEN deployed \ {n} ELSE deployed

\* mutant of suppress_Exception: the exception is let through
suppress_nothing(raised) == raised

\* contextlib.suppress(Exception) around a call that raised or did not
suppress_Exception(raised) == FALSE

\* destroy_composer(vm_name): nothing is done under the override; otherwise
\* tfcmd.cancel_vm is called inside the suppress
destroy_composer(n, o) ==
    IF COMPOSER_IP_OVERRIDE
    THEN [raised |-> FALSE, deployed |-> deployed]
    ELSE [raised |-> suppress_Exception(o = "error"), deployed |-> cancel_vm(n, o)]

\* tfcmd.deploy_vm succeeds for worker name n
GridDeploy(n) ==
    /\ ~COMPOSER_IP_OVERRIDE
    /\ n \notin deployed
    /\ deployed' = deployed \cup {n}
    /\ provisioned' = provisioned \cup {n}
    /\ UNCHANGED <<listener, reply, warm, COMPOSER_IP_OVERRIDE, destroy_calls,
                   destroy_raised>>

\* one call of destroy_composer with worker name n
DestroyCall(n, o) ==
    /\ destroy_calls[n] < MaxDestroyCalls
    /\ destroy_calls' = [destroy_calls EXCEPT ![n] = @ + 1]
    /\ deployed' = destroy_composer(n, o).deployed
    /\ destroy_raised' = (destroy_raised \/ destroy_composer(n, o).raised)
    /\ UNCHANGED <<listener, reply, warm, COMPOSER_IP_OVERRIDE, provisioned>>

(* --------------------------- the cache warmer -------------------------- *)
\* the cache warmer asleep until time t, with no worker of its own and no
\* failure logged in the tick that just ended
Asleep(t, h) ==
    [pc |-> "sleeping", wake |-> t, vm |-> 0, up |-> FALSE, destroys |-> 0,
     held |-> h, failed |-> FALSE]

\* Scheduler.last_cache_warm_ts starts at 0 (line 312) and time.time() is far
\* beyond the idle threshold; the warmer task is about to make its first tick
WarmerInit ==
    /\ last_cache_warm_ts = 0
    /\ now = WarmInterval + 1
    /\ warmer = Asleep(WarmInterval + 1, FALSE)
    /\ ncycles = 0

\* time passes
ClockTick ==
    /\ now < WarmInterval + 1 + MaxTicks
    /\ now' = now + 1
    /\ UNCHANGED <<listener, reply, grid, CACHE_WARM_DEPLOY, last_cache_warm_ts, warmer,
                   ncycles>>

\* line 1038: the time since the last recorded warming activity
idle_sec == now - last_cache_warm_ts

\* mutant of warm_due: the queue is not looked at
warm_due_idle_only == idle_sec > WarmInterval

\* lines 1039-1042: the condition for a warming cycle
warm_due == idle_sec > WarmInterval /\ queue = <<>>

\* lines 1035-1072, one tick of the loop: if no cycle is due the task sleeps;
\* a due cycle either calls provision_composer for a throwaway worker named
\* after the time, or (CACHE_WARM_DEPLOY off) runs the local script, whose
\* failure is logged, records the time and sleeps
WarmerTick(ok) ==
    /\ warmer.pc = "sleeping"
    /\ now >= warmer.wake
    /\ IF ~warm_due
       THEN /\ ok
            /\ warmer' = Asleep(now + 1, idle_sec > WarmInterval)
            /\ UNCHANGED <<last_cache_warm_ts, ncycles>>
       ELSE /\ ncycles < MaxCycles
            /\ ncycles' = ncycles + 1
            /\ IF CACHE_WARM_DEPLOY
               THEN /\ ok
                    /\ warmer' = [pc |-> "provisioning", wake |-> 0, vm |-> now,
                                  up |-> FALSE, destroys |-> 0, held |-> FALSE,
                                  failed |-> FALSE]
                    /\ UNCHANGED last_cache_warm_ts
               ELSE /\ last_cache_warm_ts' = now
                    /\ warmer' = [Asleep(now + 1, FALSE) EXCEPT !.failed = ~ok]
    /\ UNCHANGED <<listener, reply, grid, CACHE_WARM_DEPLOY, now>>

\* mutant of WarmFailed: the except clause sleeps without calling destroy
WarmFailed_no_destroy ==
    [Asleep(now + 1, FALSE) EXCEPT !.vm = warmer.vm, !.failed = TRUE]

\* lines 1057-1061: a failure inside the cycle is logged and destroy_composer
\* is called for the worker name
WarmFailed ==
    [warmer EXCEPT !.pc = "destroying_failed", !.destroys = @ + 1,
                   !.failed = TRUE]

\* line 1047: provision_composer returns an address or raises
WarmProvisionReturn(ok) ==
    /\ warmer.pc = "provisioning"
    /\ warmer' = IF ok THEN [warmer EXCEPT !.pc = "connecting", !.up = TRUE]
                 ELSE WarmFailed
    /\ UNCHANGED <<listener, reply, grid, CACHE_WARM_DEPLOY, last_cache_warm_ts, now,
                   ncycles>>

\* line 1048: connect_ssh_with_retries returns a connection or raises
WarmConnectReturn(ok) ==
    /\ warmer.pc = "connecting"
    /\ warmer' = IF ok THEN [warmer EXCEPT !.pc = "running"] ELSE WarmFailed
    /\ UNCHANGED <<listener, reply, grid, CACHE_WARM_DEPLOY, last_cache_warm_ts, now,
                   ncycles>>

\* lines 1049-1062: reset-model-atimes.sh ends and conn.close() is called; if
\* neither raised, destroy_composer is called at line 1062
WarmCommandReturn(ok, closeOk) ==
    /\ warmer.pc = "running"
    /\ warmer' = IF ok /\ closeOk
                 THEN [warmer EXCEPT !.pc = "destroying", !.destroys = @ + 1]
                 ELSE WarmFailed
    /\ UNCHANGED <<listener, reply, grid, CACHE_WARM_DEPLOY, last_cache_warm_ts, now,
                   ncycles>>

\* lines 1059-1061 and 1062-1072: destroy_composer returns; after a failure
\* the task sleeps and goes to the loop's head; after a complete cycle it
\* records the time and sleeps
WarmDestroyReturn ==
    /\ warmer.pc \in {"destroying", "destroying_failed"}
    /\ last_cache_warm_ts' =
           IF warmer.pc = "destroying" THEN now ELSE last_cache_warm_ts
    /\ warmer' = [Asleep(now + 1, FALSE) EXCEPT !.vm = warmer.vm,
                                                 !.destroys = warmer.destroys,
                                                 !.failed = warmer.failed]
    /\ UNCHANGED <<listener, reply, grid, CACHE_WARM_DEPLOY, now, ncycles>>

(* ------------------------- delivery of a transcript -------------------- *)
\* TELEGRAM_TEXT_LIMIT (4096 at line 159), scaled down to a few characters
TELEGRAM_TEXT_LIMIT == 2
\* longest text the cat of a transcript returns
MaxTextLen == 4

\* characters of a transcript: one that str.strip() removes, two it keeps
Chars == {" ", "a", "b"}

Texts == UNION {[1..n -> Chars] : n \in 0..MaxTextLen}

\* line 163
MODEL_CHOICES == {"tiny", "turbo"}

RECURSIVE lstrip(_)
lstrip(t) == IF t # <<>> /\ Head(t) = " " THEN lstrip(Tail(t)) ELSE t

RECURSIVE rstrip(_)
rstrip(t) ==
    IF t # <<>> /\ t[Len(t)] = " " THEN rstrip(SubSeq(t, 1, Len(t) - 1)) ELSE t

\* str.strip()
strip(t) == rstrip(lstrip(t))

\* text[:n]
prefix(t, n) == SubSeq(t, 1, IF Len(t) < n THEN Len(t) ELSE n)

\* a call of a bot method that went through: edit_message_text of message
\* id, or send_message / send_document / reply_text (id 0) in reply to the
\* original message; kind tells a transcript from the fixed notices
BotCall(by, method, id, kind, text) ==
    [by |-> by, method |-> method, message_id |-> id, kind |-> kind,
     text |-> text]

\* nothing has been received: no job, no message, no task
ReplyInit ==
    /\ model = "unset"
    /\ preliminary_message_id = 0
    /\ preliminary_task = "none"
    /\ transcript_text = <<>>
    /\ bot_calls = <<>>
    /\ reply_pc = "none"

\* mutant of has_preliminary: every job gets the preliminary message
has_preliminary_always(m) == TRUE

\* line 973: the test model == "turbo" of handle_media
has_preliminary(m) == m = "turbo"

\* handle_media, lines 940-991: get_user_settings returns model m; for turbo
\* the preliminary message is sent (reply_text raises: the handler ends and no
\* job is submitted), its id stored in the job and the preliminary task
\* created; then the job is queued
HandleMedia(m, ok) ==
    /\ reply_pc = "none"
    /\ model' = m
    /\ IF has_preliminary(m)
       THEN IF ok
            THEN /\ preliminary_message_id' = 1
                 /\ preliminary_task' = "running"
                 /\ bot_calls' = Append(bot_calls,
                        BotCall("handle_media", "reply_text", 0,
                                "preliminary_placeholder", <<>>))
                 /\ reply_pc' = "queued"
            ELSE /\ reply_pc' = "aborted"
                 /\ UNCHANGED <<preliminary_message_id, preliminary_task, bot_calls>>
       ELSE /\ ok
            /\ reply_pc' = "queued"
            /\ UNCHANGED <<preliminary_message_id, preliminary_task, bot_calls>>
    /\ UNCHANGED <<listener, grid, warm, transcript_text>>

\* what _update_preliminary_transcript ends with: run_local_transcription
\* gave no path (nothing is edited), a text, or an empty text
PreliminaryResults == {"none", "text", "empty"}

\* _update_preliminary_transcript, lines 898-922: the task ends, at any time
\* after its creation; the edit raises or goes through
PreliminaryUpdate(r, ok) ==
    /\ preliminary_task = "running"
    /\ preliminary_task' = "done"
    /\ r = "none" => ok
    /\ bot_calls' =
         IF r = "none" \/ ~ok THEN bot_calls
         ELSE Append(bot_calls,
                  BotCall("preliminary", "edit_message_text", 1,
                          IF r = "text" THEN "preliminary_transcript"
                          ELSE "preliminary_empty", <<>>))
    /\ UNCHANGED <<listener, grid, warm, model, preliminary_message_id,
                   transcript_text, reply_pc>>

\* lines 454-461: the cat of the transcript returns text t, which is handed to
\* _send_transcript_reply
Fetched(t) ==
    /\ reply_pc = "queued"
    /\ transcript_text' = t
    /\ reply_pc' = "replying"
    /\ UNCHANGED <<listener, grid, warm, model, preliminary_message_id,
                   preliminary_task, bot_calls>>

\* mutant of is_long: nothing is ever too long
is_long_never(text) == FALSE

\* lines 539 and 573: the test len(text) <= TELEGRAM_TEXT_LIMIT, negated
is_long(text) == Len(text) > TELEGRAM_TEXT_LIMIT

\* mutant of no_speech: the text is never taken for empty
no_speech_never(text) == FALSE

\* line 521: the test `not text` on the stripped text
no_speech(text) == text = <<>>

\* mutant of reply_method: a new message is sent whatever the job has
reply_method_send(id) == "send_message"

\* lines 523 and 538: edit the preliminary message if the job has one, else
\* send a new message
reply_method(id) == IF id # 0 THEN "edit_message_text" ELSE "send_message"

\* lines 520-590, up to the first await: the first bot call of
\* _send_transcript_reply for transcript t and preliminary message id
first_call(t, id) ==
    LET text == strip(t) IN
    IF no_speech(text)
    THEN BotCall("reply", reply_method(id), id, "no_speech", <<>>)
    ELSE IF ~is_long(text)
    THEN BotCall("reply", reply_method(id), id, "transcript", text)
    ELSE BotCall("reply", reply_method(id), id, "transcript",
                 prefix(text, TELEGRAM_TEXT_LIMIT))

\* lines 520-590: the first bot call returns or raises; a long text goes on to
\* the attachment, anything else returns
ReplyFirstCall(ok) ==
    /\ reply_pc = "replying"
    /\ IF ~ok
       THEN /\ reply_pc' = "raised"
            /\ UNCHANGED bot_calls
       ELSE /\ bot_calls' =
                Append(bot_calls, first_call(transcript_text, preliminary_message_id))
            /\ reply_pc' =
                IF ~no_speech(strip(transcript_text)) /\ is_long(strip(transcript_text))
                THEN "attaching" ELSE "returned"
    /\ UNCHANGED <<listener, grid, warm, model, preliminary_message_id,
                   preliminary_task, transcript_text>>

\* lines 554-570 and 588-602: send_document with the whole stripped text, in
\* reply to the original message, returns or raises
ReplyDocument(ok) ==
    /\ reply_pc = "attaching"
    /\ IF ~ok
       THEN /\ reply_pc' = "raised"
            /\ UNCHANGED bot_calls
       ELSE /\ bot_calls' =
                Append(bot_calls,
                       BotCall("reply", "send_document", 0, "transcript",
                               strip(transcript_text)))
            /\ reply_pc' = "returned"
    /\ UNCHANGED <<listener, grid, warm, model, preliminary_message_id,
                   preliminary_task, transcript_text>>

(* ------------------------------- Init ---------------------------------- *)
\* Scheduler.__init__ and the Job fields of jobs not yet created, for the
\* limits already drawn
Fresh ==
    /\ queue = <<>>
    /\ jobs = {}
    /\ tasks = {}
    /\ global_sem = MAX_COMPOSERS
    /\ user_sems = [u \in UserIds |-> Absent]
    /\ stop_event = FALSE
    /\ disp = [pc |-> "get", job |-> 0]
    /\ cancel_event = {}
    /\ user_id = [j \in JobIds |-> 0]
    /\ vm_name = [j \in JobIds |-> FALSE]
    /\ vm_ip = [j \in JobIds |-> FALSE]
    /\ pc = [j \in JobIds |-> "none"]
    /\ status = [j \in JobIds |-> <<>>]
    /\ ops = [j \in JobIds |-> <<>>]
    /\ exc = [j \in JobIds |-> "none"]
    /\ json_result = [j \in JobIds |-> "none"]
    /\ elapsed = [j \in JobIds |-> 0]
    /\ proc = [j \in JobIds |-> NoProc]
    /\ cancel_at = [j \in JobIds |-> "none"]
    /\ late = {}
    /\ cancel_ret = NoCall
    /\ last_req = NoRequest
    /\ nrefused = 0
    /\ GridInit
    /\ WarmerInit
    /\ last_dispatch_ts = 0
    /\ ReplyInit

(* ------------------------------ job ids --------------------------------- *)
\* the characters of a job id (a uuid4 string is made of hexadecimal digits)
HexDigits == {"a", "f"}
\* str(uuid.uuid4()), line 942: a string of NameLen + RestLen characters
Uuids == [1..(NameLen + RestLen) -> HexDigits]
\* line 382: vm_name = f"cmp{job.job_id[:8]}", the slice scaled to NameLen
worker_name(id) == <<"c", "m", "p">> \o prefix(id, NameLen)
\* the ids of the jobs of a behaviour: uuid4 draws no id twice
IdAssignments ==
    {f \in [SpecJobIds -> Uuids] : \A j, k \in SpecJobIds : j # k => f[j] # f[k]}
\* one such assignment; a job's id is read by no step but for its worker name
FirstIds == CHOOSE f \in IdAssignments : TRUE

Init ==
    /\ MAX_COMPOSERS \in 1..MaxLimit
    /\ PER_USER_CONCURRENCY \in 1..MaxLimit
    /\ COMPOSER_IP_OVERRIDE = FALSE
    /\ CACHE_WARM_DEPLOY = FALSE
    /\ ncancel = 0
    /\ nfault = 0
    /\ job_id = FirstIds
    /\ Fresh

(* --------------------------- front-end handlers ------------------------ *)
\* handle_media: a new job (fresh uuid) of user u gets its status message
\* "Queued (position N)" and is submitted: live, and appended to the queue
Submit(j, u) ==
    /\ pc[j] = "none"
    /\ \A k \in JobIds : k < j => pc[k] # "none"
    /\ \A v \in UserIds : v < u => \E k \in JobIds : user_id[k] = v
    /\ user_id' = [user_id EXCEPT ![j] = u]
    /\ status' = set_status(j, "Queued")
    /\ jobs' = jobs \cup {j}
    /\ queue' = Append(queue, j)
    /\ pc' = [pc EXCEPT ![j] = "queued"]
    /\ late' = IF stop_event THEN late \cup {j} ELSE late
    /\ UNCHANGED <<config, outside, last_dispatch_ts, tasks, global_sem,
                   user_sems, stop_event, disp, cancel_event, locals, ops,
                   cancel_at, ncancel, requests, nfault>>

\* mutant of cancel_job: the flag is set and true returned for any job id
cancel_job_unchecked(j) == [ok |-> TRUE, cancel_event |-> cancel_event \cup {j}]

\* Scheduler.cancel_job: what it returns, and the flags after the call
cancel_job(j) ==
    IF j \in jobs THEN [ok |-> TRUE, cancel_event |-> cancel_event \cup {j}]
    ELSE [ok |-> FALSE, cancel_event |-> cancel_event]

\* where each job was when its flag was first set, after a step that sets flags
note_cancel_at(flags) ==
    [j \in JobIds |-> IF j \in flags \ cancel_event THEN pc[j] ELSE cancel_at[j]]

\* mutant of is_owner: any user passes
is_owner_anyone(j, u) == TRUE

\* line 814: the test user.id != job.user_id of cancel_callback
is_owner(j, u) == u = user_id[j]

\* cancel requests for live jobs made so far, by owners or others
Requests == ncancel + nrefused

\* cancel_callback: user u presses the Cancel button of job j; the handler
\* returns at once when the job is not live or the user is not its owner
CancelCallback(j, u) ==
    /\ IF j \in jobs /\ is_owner(j, u)
       THEN /\ Requests < MaxCancelReqs
            /\ ncancel' = ncancel + 1
            /\ cancel_event' = cancel_job(j).cancel_event
            /\ cancel_ret' = [job |-> j, ok |-> cancel_job(j).ok]
            /\ last_req' = [job |-> j, user |-> u]
            /\ cancel_at' = note_cancel_at(cancel_job(j).cancel_event)
            /\ status' = [status EXCEPT ![j] = Append(@, "Canceling")]
            /\ UNCHANGED nrefused
       ELSE IF j \in jobs
       THEN /\ Requests < MaxCancelReqs
            /\ nrefused' = nrefused + 1
            /\ last_req' = [job |-> j, user |-> u]
            /\ UNCHANGED <<cancel_event, cancel_at, status, ncancel, cancel_ret>>
       ELSE UNCHANGED <<cancel_event, cancel_at, status, ncancel, requests>>
    /\ UNCHANGED <<config, outside, last_dispatch_ts, sched, stop_event, disp,
                   user_id, locals, pc, ops, late, nfault>>

\* Scheduler.cancel_job called with any job id, live or not
CancelJob(j) ==
    /\ cancel_job(j).ok => Requests < MaxCancelReqs
    /\ ncancel' = IF cancel_job(j).ok THEN ncancel + 1 ELSE ncancel
    /\ cancel_event' = cancel_job(j).cancel_event
    /\ cancel_ret' = [job |-> j, ok |-> cancel_job(j).ok]
    /\ last_req' = IF cancel_job(j).ok THEN [job |-> j, user |-> 0] ELSE last_req
    /\ cancel_at' = note_cancel_at(cancel_job(j).cancel_event)
    /\ UNCHANGED <<config, outside, last_dispatch_ts, sched, stop_event, disp,
                   user_id, locals, pc, status, ops, late, nfault, nrefused>>

\* Scheduler.shutdown
Shutdown ==
    /\ ~stop_event
    /\ stop_event' = TRUE
    /\ UNCHANGED <<config, outside, last_dispatch_ts, sched, disp, cancel_event,
                   user_id, locals, pc, status, ops, cancel_at, late, ncancel,
                   requests, nfault>>

(* --------------------------- Scheduler.run ----------------------------- *)
\* mutant of skip_at_dequeue: the flag is not looked at when dequeuing
skip_never(j) == FALSE

\* the test at the top of an iteration's body: skip a job canceled in the queue
skip_at_dequeue(j) == cancel_is_set(j)

\* lines 346-354: acquire the global slot (unless already held), then the
\* user's slot, then create the task; the loop blocks where a slot is missing
Admit(j, haveGlobal) ==
    LET u == user_id[j]
        g1 == IF haveGlobal THEN global_sem ELSE sem_acquire(global_sem)
        us1 == get_user_sem(user_sems, u)
    IN  IF ~haveGlobal /\ sem_locked(global_sem)
        THEN /\ disp' = [pc |-> "acq_global", job |-> j]
             /\ pc' = [pc EXCEPT ![j] = "dispatching"]
             /\ UNCHANGED <<global_sem, user_sems, tasks, last_dispatch_ts>>
        ELSE IF sem_locked(us1[u])
        THEN /\ disp' = [pc |-> "acq_user", job |-> j]
             /\ pc' = [pc EXCEPT ![j] = "dispatching"]
             /\ global_sem' = g1
             /\ user_sems' = us1
             /\ UNCHANGED <<tasks, last_dispatch_ts>>
        ELSE /\ global_sem' = g1
             /\ user_sems' = [us1 EXCEPT ![u] = sem_acquire(@)]
             /\ tasks' = tasks \cup {j}
             /\ pc' = [pc EXCEPT ![j] = "start"]
             /\ disp' = LoopTop
             /\ last_dispatch_ts' = now

\* mutant of SkipCanceled: the job is left in the live-job mapping
SkipCanceled_KeepLive(j) ==
    /\ status' = set_status(j, "Canceled")
    /\ pc' = [pc EXCEPT ![j] = "skipped"]
    /\ disp' = LoopTop
    /\ UNCHANGED <<jobs, global_sem, user_sems, tasks, last_dispatch_ts>>

\* lines 340-344: the job is reported Canceled, its staged input removed, and
\* it leaves the live-job mapping; no slot is taken and no task is created
SkipCanceled(j) ==
    /\ status' = set_status(j, "Canceled")
    /\ jobs' = jobs \ {j}
    /\ pc' = [pc EXCEPT ![j] = "skipped"]
    /\ disp' = LoopTop
    /\ UNCHANGED <<global_sem, user_sems, tasks, last_dispatch_ts>>

\* mutant of queue_get: the job submitted last is taken
queue_get_last(q) == [job |-> q[Len(q)], rest |-> SubSeq(q, 1, Len(q) - 1)]

\* asyncio.Queue.get() on a non-empty queue: the oldest job, and what is left
queue_get(q) == [job |-> Head(q), rest |-> Tail(q)]

\* lines 338-344: queue.get() returns; a job whose flag is set is reported
\* Canceled, cleaned up and dropped, anything else goes on to admission
DispatchDequeue ==
    /\ disp.pc = "get"
    /\ queue # <<>>
    /\ LET j == queue_get(queue).job IN
       /\ queue' = queue_get(queue).rest
       /\ IF skip_at_dequeue(j)
          THEN SkipCanceled(j)
          ELSE /\ Admit(j, FALSE)
               /\ UNCHANGED <<status, jobs>>
    /\ UNCHANGED <<config, outside, stop_event, cancel_event, user_id, locals, ops,
                   cancel_at, late, ncancel, requests, nfault>>

\* line 347 returns after having blocked
DispatchGlobal ==
    /\ disp.pc = "acq_global"
    /\ ~sem_locked(global_sem)
    /\ Admit(disp.job, FALSE)
    /\ UNCHANGED <<config, outside, queue, jobs, stop_event, cancel_event, user_id,
                   locals, status, ops, cancel_at, late, ncancel, requests, nfault>>

\* line 349 returns after having blocked
DispatchUser ==
    /\ disp.pc = "acq_user"
    /\ ~sem_locked(user_sems[user_id[disp.job]])
    /\ Admit(disp.job, TRUE)
    /\ UNCHANGED <<config, outside, queue, jobs, stop_event, cancel_event, user_id,
                   locals, status, ops, cancel_at, late, ncancel, requests, nfault>>

(* ------------------------- Scheduler._run_job -------------------------- *)
\* what an action of job j leaves alone besides the job's own fields
RunFrame == UNCHANGED <<config, outside, last_dispatch_ts, queue, stop_event,
                        disp, cancel_event, user_id, cancel_at, late, ncancel,
                        requests>>

\* an external call ends: nominally, or in one of its other outcomes
Outcome(nominal) ==
    /\ nominal \/ nfault < MaxFaults
    /\ nfault' = IF nominal THEN nfault ELSE nfault + 1

Issue(j, op) == [ops EXCEPT ![j] = Append(@, op)]

\* an exception leaves the outer try (no connection is open, or the inner
\* finally has run): the matching except clause replies, then the outer finally
Caught(j, e) ==
    /\ exc' = [exc EXCEPT ![j] = e]
    /\ status' = send_error_reply(j, except_text(e))
    /\ pc' = [pc EXCEPT ![j] = "outer_finally"]

\* mutant of a checkpoint: the flag is not looked at
checkpoint_missing(j) == FALSE

\* the three checkpoints of _run_job: after provision_composer (line 389),
\* after the upload (line 419) and after the composer command (line 437)
checkpoint_after_provision(j) == cancel_is_set(j)
checkpoint_after_upload(j) == cancel_is_set(j)
checkpoint_after_transcribe(j) == cancel_is_set(j)

\* lines 381-385: status "Provisioning", vm_name is set, provision is called
RunnerStart(j) ==
    /\ pc[j] = "start"
    /\ UNCHANGED nfault
    /\ status' = set_status(j, "Provisioning")
    /\ vm_name' = [vm_name EXCEPT ![j] = TRUE]
    /\ ops' = Issue(j, "provision")
    /\ pc' = [pc EXCEPT ![j] = "provisioning"]
    /\ UNCHANGED <<jobs, tasks, global_sem, user_sems, vm_ip, exc, json_result,
                   elapsed, proc>>
    /\ RunFrame

\* lines 385-395: provision_composer returns an address or raises; then the
\* first checkpoint, then status "Connecting" and the first connection attempt
ProvisionReturn(j, ok) ==
    /\ pc[j] = "provisioning"
    /\ Outcome(ok)
    /\ IF ~ok
       THEN /\ Caught(j, "ProvisioningFailure")
            /\ UNCHANGED vm_ip
       ELSE /\ vm_ip' = [vm_ip EXCEPT ![j] = TRUE]
            /\ UNCHANGED exc
            /\ IF checkpoint_after_provision(j)
               THEN /\ status' = set_status(j, "Canceled")
                    /\ pc' = [pc EXCEPT ![j] = "outer_finally"]
               ELSE /\ status' = set_status(j, "Connecting")
                    /\ pc' = [pc EXCEPT ![j] = "connecting"]
    /\ UNCHANGED <<jobs, tasks, global_sem, user_sems, vm_name, json_result,
                   elapsed, proc, ops>>
    /\ RunFrame

\* connect_ssh_with_retries: the loop condition, with the time spent measured
\* in failed attempts
connect_budget_left(n) == n < MaxConnectAttempts

\* lines 652-667 and 402-405: one asyncssh.connect attempt; on success mkdir is
\* run, on failure the loop sleeps, and raises once the budget is used up
ConnectAttempt(j, ok) ==
    /\ pc[j] = "connecting"
    /\ connect_budget_left(elapsed[j])
    /\ Outcome(ok \/ connect_budget_left(elapsed[j] + 1))
    /\ IF ok
       THEN /\ ops' = [ops EXCEPT ![j] = @ \o <<"connect", "mkdir">>]
            /\ pc' = [pc EXCEPT ![j] = "mkdir"]
            /\ elapsed' = [elapsed EXCEPT ![j] = 0]
            /\ UNCHANGED <<exc, status>>
       ELSE /\ UNCHANGED ops
            /\ IF connect_budget_left(elapsed[j] + 1)
               THEN /\ elapsed' = [elapsed EXCEPT ![j] = @ + 1]
                    /\ UNCHANGED <<pc, exc, status>>
               ELSE /\ elapsed' = [elapsed EXCEPT ![j] = 0]
                    /\ Caught(j, "ConnectTimeout")
    /\ UNCHANGED <<jobs, tasks, global_sem, user_sems, vm_name, vm_ip,
                   json_result, proc>>
    /\ RunFrame

\* lines 402-417: mkdir returns or fails; then status "Uploading" and scp
MkdirReturn(j, ok) ==
    /\ pc[j] = "mkdir"
    /\ Outcome(ok)
    /\ IF ok
       THEN /\ status' = set_status(j, "Uploading")
            /\ ops' = Issue(j, "scp")
            /\ pc' = [pc EXCEPT ![j] = "uploading"]
            /\ UNCHANGED exc
       ELSE /\ exc' = [exc EXCEPT ![j] = "RemoteCommandFailure"]
            /\ pc' = [pc EXCEPT ![j] = "inner_finally"]
            /\ UNCHANGED <<status, ops>>
    /\ UNCHANGED <<jobs, tasks, global_sem, user_sems, vm_name, vm_ip,
                   json_result, elapsed, proc>>
    /\ RunFrame

\* lines 412-435: scp returns or fails; then the second checkpoint, then
\* status "Transcribing" and the composer command
UploadReturn(j, ok) ==
    /\ pc[j] = "uploading"
    /\ Outcome(ok)
    /\ IF ~ok
       THEN /\ exc' = [exc EXCEPT ![j] = "UploadFailure"]
            /\ pc' = [pc EXCEPT ![j] = "inner_finally"]
            /\ UNCHANGED <<status, ops>>
       ELSE /\ UNCHANGED exc
            /\ IF checkpoint_after_upload(j)
               THEN /\ status' = set_status(j, "Canceled")
                    /\ pc' = [pc EXCEPT ![j] = "inner_finally"]
                    /\ UNCHANGED ops
               ELSE /\ status' = set_status(j, "Transcribing")
                    /\ ops' = Issue(j, "transcribe")
                    /\ pc' = [pc EXCEPT ![j] = "transcribing"]
    /\ UNCHANGED <<jobs, tasks, global_sem, user_sems, vm_name, vm_ip,
                   json_result, elapsed, proc>>
    /\ RunFrame

\* mutant of TranscribeRaises: only the timeout is taken for an exception
TranscribeRaises_timeout_only == {"TimeoutError"}

\* what run_ssh_command_with_json can end with: an exception, or a parsed value
TranscribeRaises == {"TimeoutError", "RemoteCommandFailure", "MalformedResult"}
TranscribeValues == {"empty", "ok_false", "ok_nopath", "ok"}

\* run_ssh_command: the timeout is re-raised, a non-zero exit status raises,
\* otherwise the output is returned
run_ssh_command(o) ==
    IF o.timed_out THEN "TimeoutError"
    ELSE IF o.exit # 0 THEN "RemoteCommandFailure"
    ELSE "stdout"

\* run_ssh_command_with_json: the last non-empty line of the output is parsed
run_ssh_command_with_json(o) ==
    IF run_ssh_command(o) # "stdout" THEN run_ssh_command(o)
    ELSE IF o.line = "blank" THEN "empty"
    ELSE IF o.line = "garbage" THEN "MalformedResult"
    ELSE o.line

\* line 442-444: the reply for a result whose "ok" is false carries the
\* result's "error", or "Transcription failed" where there is none
transcription_failed_text(e) ==
    IF e = "E_FFMPEG_TIMEOUT" THEN "Failed:E_FFMPEG_TIMEOUT"
    ELSE IF e = "E_WHISPERX" THEN "Failed:E_WHISPERX"
    ELSE "Failed:transcription"

\* lines 433-458: the composer command ends; an exception goes to the inner
\* finally; a parsed result is followed by the third checkpoint, the ok test,
\* the text_path test and the cat of the transcript
TranscribeReturn(j, o) ==
    LET r == run_ssh_command_with_json(o) IN
    /\ pc[j] = "transcribing"
    /\ Outcome(r = "ok")
    /\ proc' = [proc EXCEPT ![j] = o]
    /\ IF r \in TranscribeRaises
       THEN /\ exc' = [exc EXCEPT ![j] = r]
            /\ pc' = [pc EXCEPT ![j] = "inner_finally"]
            /\ UNCHANGED <<status, ops, json_result>>
       ELSE /\ json_result' = [json_result EXCEPT ![j] = r]
            /\ UNCHANGED exc
            /\ IF checkpoint_after_transcribe(j)
               THEN /\ status' = set_status(j, "Canceled")
                    /\ pc' = [pc EXCEPT ![j] = "inner_finally"]
                    /\ UNCHANGED ops
               ELSE IF r \in {"empty", "ok_false"}
               THEN /\ status' = send_error_reply(j, transcription_failed_text(o.error))
                    /\ pc' = [pc EXCEPT ![j] = "inner_finally"]
                    /\ UNCHANGED ops
               ELSE IF r = "ok_nopath"
               THEN /\ status' = send_error_reply(j, "Failed:no_transcript")
                    /\ pc' = [pc EXCEPT ![j] = "inner_finally"]
                    /\ UNCHANGED ops
               ELSE /\ ops' = Issue(j, "cat")
                    /\ pc' = [pc EXCEPT ![j] = "fetching"]
                    /\ UNCHANGED status
    /\ UNCHANGED <<jobs, tasks, global_sem, user_sems, vm_name, vm_ip, elapsed>>
    /\ RunFrame

\* what the cat of the transcript can end with
FetchResults == {"ok", "RemoteCommandFailure", "TimeoutError"}

\* lines 454-461: cat returns the text, fails or times out; the text is handed
\* to _send_transcript_reply
FetchReturn(j, r) ==
    /\ pc[j] = "fetching"
    /\ Outcome(r = "ok")
    /\ IF r = "ok"
       THEN /\ ops' = Issue(j, "deliver")
            /\ pc' = [pc EXCEPT ![j] = "delivering"]
            /\ UNCHANGED exc
       ELSE /\ exc' = [exc EXCEPT ![j] = r]
            /\ pc' = [pc EXCEPT ![j] = "inner_finally"]
            /\ UNCHANGED ops
    /\ UNCHANGED <<jobs, tasks, global_sem, user_sems, vm_name, vm_ip,
                   json_result, elapsed, proc, status>>
    /\ RunFrame

\* lines 461-463: _send_transcript_reply returns or raises; then status "Done"
DeliverReturn(j, ok) ==
    /\ pc[j] = "delivering"
    /\ Outcome(ok)
    /\ IF ok
       THEN /\ status' = set_status(j, "Done")
            /\ UNCHANGED exc
       ELSE /\ exc' = [exc EXCEPT ![j] = "NotifyFailure"]
            /\ UNCHANGED status
    /\ pc' = [pc EXCEPT ![j] = "inner_finally"]
    /\ UNCHANGED <<jobs, tasks, global_sem, user_sems, vm_name, vm_ip,
                   json_result, elapsed, proc, ops>>
    /\ RunFrame

\* lines 464-484: the inner finally: rm -rf with its failure suppressed, then
\* conn.close(), which is not guarded; whatever exception is then in flight
\* reaches the except clauses of the outer try
InnerFinally(j, closeOk) ==
    /\ pc[j] = "inner_finally"
    /\ Outcome(closeOk)
    /\ ops' = [ops EXCEPT ![j] = @ \o <<"rm", "close">>]
    /\ IF ~closeOk THEN Caught(j, "CloseError")
       ELSE IF exc[j] # "none" THEN Caught(j, exc[j])
       ELSE /\ pc' = [pc EXCEPT ![j] = "outer_finally"]
            /\ UNCHANGED <<exc, status>>
    /\ UNCHANGED <<jobs, tasks, global_sem, user_sems, vm_name, vm_ip,
                   json_result, elapsed, proc>>
    /\ RunFrame

\* mutant of Finish: the live-job mapping is cleared, not just of the job
Finish_clear(j) ==
    /\ tasks' = tasks \ {j}
    /\ jobs' = {}
    /\ global_sem' = sem_release(global_sem)
    /\ user_sems' = [user_sems EXCEPT ![user_id[j]] = sem_release(@)]
    /\ pc' = [pc EXCEPT ![j] = "finished"]

\* lines 490-493: the job leaves both tables and both slots are released
Finish(j) ==
    /\ tasks' = tasks \ {j}
    /\ jobs' = jobs \ {j}
    /\ global_sem' = sem_release(global_sem)
    /\ user_sems' = [user_sems EXCEPT ![user_id[j]] = sem_release(@)]
    /\ pc' = [pc EXCEPT ![j] = "finished"]

\* lines 485-488: the outer finally: _cleanup_local, then destroy_composer
OuterFinally(j) ==
    /\ pc[j] = "outer_finally"
    /\ UNCHANGED nfault
    /\ IF should_destroy(j)
       THEN /\ ops' = Issue(j, "destroy")
            /\ pc' = [pc EXCEPT ![j] = "destroying"]
            /\ UNCHANGED <<jobs, tasks, global_sem, user_sems>>
       ELSE /\ Finish(j)
            /\ UNCHANGED ops
    /\ UNCHANGED <<locals, status>>
    /\ RunFrame

\* lines 488-493: destroy_composer returns (it never raises)
DestroyReturn(j) ==
    /\ pc[j] = "destroying"
    /\ UNCHANGED nfault
    /\ Finish(j)
    /\ UNCHANGED <<locals, status, ops>>
    /\ RunFrame

(* --------------------------- specifications ---------------------------- *)
\* the steps of the _run_job task of job j
RunnerStep(j) ==
    \/ RunnerStart(j)
    \/ \E ok \in BOOLEAN : ProvisionReturn(j, ok)
    \/ \E ok \in BOOLEAN : ConnectAttempt(j, ok)
    \/ \E ok \in BOOLEAN : MkdirReturn(j, ok)
    \/ \E ok \in BOOLEAN : UploadReturn(j, ok)
    \/ \E o \in ComposerResults \cup OtherResults : TranscribeReturn(j, o)
    \/ \E r \in FetchResults : FetchReturn(j, r)
    \/ \E ok \in BOOLEAN : DeliverReturn(j, ok)
    \/ \E ok \in BOOLEAN : InnerFinally(j, ok)
    \/ OuterFinally(j)
    \/ DestroyReturn(j)

Dispatch == DispatchDequeue \/ DispatchGlobal \/ DispatchUser

Next ==
    \/ \E j \in SpecJobIds, u \in UserIds : Submit(j, u)
    \/ \E j \in SpecJobIds, u \in UserIds : CancelCallback(j, u)
    \/ DispatchDequeue
    \/ DispatchGlobal
    \/ DispatchUser
    \/ \E j \in SpecJobIds : RunnerStart(j)
    \/ \E j \in SpecJobIds, ok \in BOOLEAN : ProvisionReturn(j, ok)
    \/ \E j \in SpecJobIds, ok \in BOOLEAN : ConnectAttempt(j, ok)
    \/ \E j \in SpecJobIds, ok \in BOOLEAN : MkdirReturn(j, ok)
    \/ \E j \in SpecJobIds, ok \in BOOLEAN : UploadReturn(j, ok)
    \/ \E j \in SpecJobIds, o \in ComposerResults \cup OtherResults :
          TranscribeReturn(j, o)
    \/ \E j \in SpecJobIds, r \in FetchResults : FetchReturn(j, r)
    \/ \E j \in SpecJobIds, ok \in BOOLEAN : DeliverReturn(j, ok)
    \/ \E j \in SpecJobIds, ok \in BOOLEAN : InnerFinally(j, ok)
    \/ \E j \in SpecJobIds : OuterFinally(j)
    \/ \E j \in SpecJobIds : DestroyReturn(j)

\* the listener while shutdown() is not requested: shutdown only keeps the
\* dispatch loop from taking further jobs, so every state of a job that it
\* allows is also reached here
Spec == Init /\ [][Next]_vars

\* the event loop runs every task that is ready: the dispatch loop once the
\* slot or queue item it waits for is there, and each job's task whenever the
\* call it awaits has ended (every external call returns or fails)
Fairness ==
    /\ WF_vars(Dispatch)
    /\ \A j \in SpecJobIds : WF_vars(RunnerStep(j))

LiveSpec == Init /\ [][Next]_vars /\ Fairness

\* destroy_composer on its own: called any number of times, in any order, for
\* worker names that are deployed, were destroyed before, or never existed,
\* with and without COMPOSER_IP_OVERRIDE
DestroyInit ==
    /\ MAX_COMPOSERS \in 1..MaxLimit
    /\ PER_USER_CONCURRENCY \in 1..MaxLimit
    /\ COMPOSER_IP_OVERRIDE \in BOOLEAN
    /\ CACHE_WARM_DEPLOY = FALSE
    /\ ncancel = 0
    /\ nfault = 0
    /\ job_id = FirstIds
    /\ Fresh

DestroyNext ==
    \/ \E n \in WorkerNames : GridDeploy(n)
    \/ \E n \in WorkerNames, o \in CancelVmResults : DestroyCall(n, o)

DestroySpec == DestroyInit /\ [][DestroyNext]_vars

\* the listener when every external call ends nominally (the budget of
\* other outcomes is used up from the start): up to MaxFifoJobs jobs, with
\* MAX_COMPOSERS up to MaxFifoLimit
FifoInit ==
    /\ MAX_COMPOSERS \in 1..MaxFifoLimit
    /\ PER_USER_CONCURRENCY \in 1..MaxLimit
    /\ COMPOSER_IP_OVERRIDE = FALSE
    /\ CACHE_WARM_DEPLOY = FALSE
    /\ ncancel = 0
    /\ nfault = MaxFaults
    /\ job_id = FirstIds
    /\ Fresh

FifoNext ==
    \/ \E j \in JobIds, u \in UserIds : Submit(j, u)
    \/ \E j \in JobIds, u \in UserIds : CancelCallback(j, u)
    \/ DispatchDequeue
    \/ DispatchGlobal
    \/ DispatchUser
    \/ \E j \in JobIds : RunnerStart(j)
    \/ \E j \in JobIds, ok \in BOOLEAN : ProvisionReturn(j, ok)
    \/ \E j \in JobIds, ok \in BOOLEAN : ConnectAttempt(j, ok)
    \/ \E j \in JobIds, ok \in BOOLEAN : MkdirReturn(j, ok)
    \/ \E j \in JobIds, ok \in BOOLEAN : UploadReturn(j, ok)
    \/ \E j \in JobIds, o \in ComposerResults \cup OtherResults :
          TranscribeReturn(j, o)
    \/ \E j \in JobIds, r \in FetchResults : FetchReturn(j, r)
    \/ \E j \in JobIds, ok \in BOOLEAN : DeliverReturn(j, ok)
    \/ \E j \in JobIds, ok \in BOOLEAN : InnerFinally(j, ok)
    \/ \E j \in JobIds : OuterFinally(j)
    \/ \E j \in JobIds : DestroyReturn(j)

FifoSpec == FifoInit /\ [][FifoNext]_vars

\* the listener when every external call ends nominally, with
\* Scheduler.cancel_job also called directly, for any job id at any time
CancelNext ==
    \/ Next
    \/ \E j \in JobIds : CancelJob(j)

CancelSpec == FifoInit /\ [][CancelNext]_vars

\* the listener when every external call ends nominally, with
\* Scheduler.shutdown called at any time
ShutdownNext ==
    \/ Next
    \/ Shutdown

ShutdownSpec == FifoInit /\ [][ShutdownNext]_vars

\* the listener with its cache warmer task, in either warming mode, when
\* every external call of a job ends nominally
WarmInit ==
    /\ MAX_COMPOSERS \in 1..MaxLimit
    /\ PER_USER_CONCURRENCY \in 1..MaxLimit
    /\ COMPOSER_IP_OVERRIDE = FALSE
    /\ CACHE_WARM_DEPLOY \in BOOLEAN
    /\ ncancel = 0
    /\ nfault = MaxFaults
    /\ job_id = FirstIds
    /\ Fresh

WarmNext ==
    \/ \E j \in WarmJobIds, u \in UserIds : Submit(j, u)
    \/ DispatchDequeue
    \/ DispatchGlobal
    \/ DispatchUser
    \/ \E j \in WarmJobIds : RunnerStep(j)
    \/ ClockTick
    \/ \E ok \in BOOLEAN : WarmerTick(ok)
    \/ \E ok \in BOOLEAN : WarmProvisionReturn(ok)
    \/ \E ok \in BOOLEAN : WarmConnectReturn(ok)
    \/ \E ok, closeOk \in BOOLEAN : WarmCommandReturn(ok, closeOk)
    \/ WarmDestroyReturn

WarmSpec == WarmInit /\ [][WarmNext]_vars

\* one media message: handle_media, the preliminary task and the delivery of
\* the transcript the job's worker produced, each bot call going through or
\* raising
ReplyNext ==
    \/ \E m \in MODEL_CHOICES, ok \in BOOLEAN : HandleMedia(m, ok)
    \/ \E r \in PreliminaryResults, ok \in BOOLEAN : PreliminaryUpdate(r, ok)
    \/ \E t \in Texts : Fetched(t)
    \/ \E ok \in BOOLEAN : ReplyFirstCall(ok)
    \/ \E ok \in BOOLEAN : ReplyDocument(ok)

ReplySpec == Init /\ [][ReplyNext]_vars

\* the listener when every external call ends nominally, for every choice of
\* distinct job ids handle_media can draw
NameInit ==
    /\ MAX_COMPOSERS \in 1..MaxLimit
    /\ PER_USER_CONCURRENCY \in 1..MaxLimit
    /\ COMPOSER_IP_OVERRIDE = FALSE
    /\ CACHE_WARM_DEPLOY = FALSE
    /\ ncancel = 0
    /\ nfault = MaxFaults
    /\ job_id \in IdAssignments
    /\ Fresh

NameSpec == NameInit /\ [][Next]_vars

(* ------------------------------ properties ----------------------------- *)
\* the _run_job task of job j has run to its end
Ended(j) == pc[j] = "finished"

Destroys(j) == Count(ops[j], "destroy")

\* C1: destroy is called exactly once for every job whose _run_job was
\* started, whatever the exit path: never twice, never before the outer
\* finally, and once by the time the task ends
C1_DestroyExactlyOnce ==
    \A j \in JobIds :
        /\ Destroys(j) <= 1
        /\ Ended(j) => Destroys(j) = 1
        /\ Destroys(j) = 1 => pc[j] \in {"destroying", "finished"}

\* two tasks have ended, one Canceled and one through an exception, and each
\* destroyed its worker once
C1_Witness ==
    \E j, k \in JobIds :
        /\ Ended(j) /\ Ended(k)
        /\ Terminals(j) = <<"Canceled">> /\ Destroys(j) = 1
        /\ exc[k] = "ProvisioningFailure" /\ Destroys(k) = 1

\* C2: under LiveSpec every submitted job eventually has a terminal outcome
\* reported, for every interleaving of submit and cancel and all limits
C2_EveryJobReported ==
    \A j \in SpecJobIds : (pc[j] # "none") ~> (Len(Terminals(j)) > 0)

\* both jobs are reported, and the second was canceled while the dispatch loop
\* held the global slot and waited for its user's slot
C2_Witness ==
    /\ \A j \in SpecJobIds : Len(Terminals(j)) > 0
    /\ MAX_COMPOSERS > PER_USER_CONCURRENCY
    /\ \E j \in JobIds : cancel_at[j] = "dispatching"

\* C3: no job has more than one terminal outcome reported
C3_AtMostOneTerminal == \A j \in JobIds : Len(Terminals(j)) <= 1

\* C4: the jobs whose _run_job is between its start and the end of its
\* teardown are at most MAX_COMPOSERS
C4_GlobalLimit == Cardinality(Running) <= MAX_COMPOSERS

\* the global limit is reached while the dispatch loop waits for a slot
C4_Witness ==
    /\ Cardinality(Running) = MAX_COMPOSERS
    /\ disp.pc = "acq_global"

RunningOf(u) == {j \in Running : user_id[j] = u}

\* C5: for every user, that user's jobs whose _run_job is between its start
\* and the end of its teardown are at most PER_USER_CONCURRENCY
C5_PerUserLimit ==
    \A u \in UserIds : Cardinality(RunningOf(u)) <= PER_USER_CONCURRENCY

\* a user's limit is reached, below the global one, while the dispatch loop
\* waits for that user's slot
C5_Witness ==
    /\ disp.pc = "acq_user"
    /\ Cardinality(RunningOf(user_id[disp.job])) = PER_USER_CONCURRENCY
    /\ Cardinality(Running) < MAX_COMPOSERS

\* C6 as stated: a job whose flag is set before its task has started, also
\* while the dispatch loop waits for its slots, gets no slot, no task and no
\* provision call
C6_Original ==
    \A j \in JobIds :
        cancel_at[j] \in {"queued", "dispatching"} =>
            /\ pc[j] \in {"queued", "dispatching", "skipped"}
            /\ ~Has(ops[j], "provision")

\* C6 as amended: a job whose flag is set while it is still in the queue gets
\* no slot, no task and no provision call
C6_CanceledInQueue ==
    \A j \in JobIds :
        cancel_at[j] = "queued" =>
            /\ pc[j] \in {"queued", "skipped"}
            /\ ops[j] = <<>>
            /\ j \notin tasks
            /\ disp.job # j

\* a job canceled in the queue has been dequeued and dropped
C6_Witness ==
    \E j \in JobIds : cancel_at[j] = "queued" /\ pc[j] = "skipped" /\ ops[j] = <<>>

\* C7: when the dispatch loop dequeues a job whose flag is set, it reports
\* Canceled, removes the job from the live-job mapping, takes no slot, creates
\* no task and is back at the head of its loop
C7_SkipAtDequeue ==
    [][(disp.pc = "get" /\ queue # <<>> /\ queue' = Tail(queue)
        /\ Head(queue) \in cancel_event) =>
         LET j == Head(queue) IN
           /\ status'[j] = Append(status[j], "Canceled")
           /\ jobs' = jobs \ {j}
           /\ global_sem' = global_sem
           /\ user_sems' = user_sems
           /\ tasks' = tasks
           /\ pc'[j] = "skipped"
           /\ (stop_event \/ disp' = [pc |-> "get", job |-> 0])]_vars

\* a canceled job was skipped with another job still behind it in the queue
C7_Witness ==
    \E j \in JobIds :
        /\ pc[j] = "skipped" /\ Terminals(j) = <<"Canceled">> /\ j \notin jobs
        /\ disp.pc = "get" /\ queue # <<>>

\* C8 as stated: the flag is checked before each of Provisioning, Connecting,
\* Uploading, Transcribing and Fetching, so a step before which the flag was
\* set is never started
C8_CheckedBeforeEachStep ==
    \A j \in JobIds :
        /\ cancel_at[j] \in {"queued", "dispatching", "start"} =>
               ~Has(status[j], "Provisioning")
        /\ cancel_at[j] = "provisioning" => ~Has(status[j], "Connecting")
        /\ cancel_at[j] \in {"connecting", "mkdir"} => ~Has(status[j], "Uploading")
        /\ cancel_at[j] = "uploading" => ~Has(status[j], "Transcribing")
        /\ cancel_at[j] = "transcribing" => ~Has(ops[j], "cat")

\* positions of a job after the except clauses of _run_job
AfterExcept == {"outer_finally", "destroying", "finished"}

\* C9 as stated: a job canceled while the composer command runs is neither
\* fetched nor delivered, and its outcome is Canceled whatever the command
\* ended with
C9_Original ==
    \A j \in JobIds :
        cancel_at[j] = "transcribing" =>
            /\ ~Has(ops[j], "cat")
            /\ ~Has(ops[j], "deliver")
            /\ Ended(j) => (Len(Terminals(j)) > 0 /\ Terminals(j)[1] = "Canceled")

\* C9 as amended: the cancel request leaves the running command alone; once
\* the command has finished the job is neither fetched nor delivered; it is
\* reported Canceled if the command returned a parsed result, and Failed if
\* the command raised (non-zero exit, unparsable output, timeout)
C9_CanceledWhileTranscribing ==
    [][\A j \in JobIds :
         /\ (j \notin cancel_event /\ j \in cancel_event') =>
                (pc'[j] = pc[j] /\ ops' = ops)
         /\ cancel_at'[j] = "transcribing" =>
              /\ ~Has(ops'[j], "cat")
              /\ ~Has(ops'[j], "deliver")
              /\ (pc'[j] # "transcribing" /\ json_result'[j] # "none") =>
                     Has(status'[j], "Canceled")
              /\ (pc'[j] \in AfterExcept /\ json_result'[j] = "none") =>
                     /\ exc'[j] \in TranscribeRaises \cup {"CloseError"}
                     /\ Has(status'[j], except_text(exc'[j]))]_vars

\* a job canceled while the composer command ran was reported Canceled after
\* the command returned ok = true with a text_path
C9_Witness ==
    \E j \in JobIds :
        /\ cancel_at[j] = "transcribing"
        /\ json_result[j] = "ok"
        /\ Terminals(j) = <<"Canceled">>
        /\ Ended(j)

\* C10 as stated: a job whose connection attempts all failed is never uploaded
\* or transcribed, ends Failed with its worker destroyed, and its report
\* differs from the report of a job that failed for another reason
C10_ConnectTimeoutDistinct ==
    \A j \in JobIds :
        (exc[j] = "ConnectTimeout" /\ Ended(j)) =>
            /\ ~Has(ops[j], "scp")
            /\ ~Has(ops[j], "transcribe")
            /\ Destroys(j) = 1
            /\ Len(Terminals(j)) = 1
            /\ Terminals(j)[1] \in FailedTexts
            /\ \A k \in JobIds :
                   (Ended(k) /\ exc[k] \notin {"none", "ConnectTimeout"}) =>
                       Terminals(k) # Terminals(j)

\* C11 as stated: a job whose composer process printed a failure line with an
\* error string and exited non-zero ends with exactly the report Failed
\* carrying that error string, and its worker is destroyed
C11_FailureResultSurfaced ==
    \A j \in JobIds :
        (proc[j] \in ComposerResults /\ proc[j].line = "ok_false" /\ Ended(j)) =>
            /\ Destroys(j) = 1
            /\ Len(Terminals(j)) > 0
            /\ Terminals(j)[Len(Terminals(j))] =
                   transcription_failed_text(proc[j].error)

\* C12: no call of destroy_composer raises to its caller, whatever the worker
\* name's state (deployed, already destroyed, never deployed) and however
\* often it is called; a call removes at most the named worker, and none when
\* the named worker is already gone
C12_DestroyNeverRaises ==
    [][\A n \in WorkerNames :
         destroy_calls'[n] > destroy_calls[n] =>
             /\ ~destroy_raised'
             /\ deployed' \subseteq deployed
             /\ deployed \ deployed' \subseteq {n}
             /\ (n \notin deployed => deployed' = deployed)]_vars

\* destroy was called the most often for a worker that was deployed and is
\* gone, and also for a worker name that was never deployed
C12_Witness ==
    \E n, m \in WorkerNames :
        /\ n \in provisioned /\ n \notin deployed
        /\ destroy_calls[n] = MaxDestroyCalls
        /\ m \notin provisioned /\ destroy_calls[m] > 1
        /\ ~COMPOSER_IP_OVERRIDE

\* C13: with PER_USER_CONCURRENCY = 1 and any MAX_COMPOSERS, of two jobs of one
\* user the one submitted later has no status Provisioning and no provision
\* call before the earlier one has its terminal outcome reported and has
\* given its slots back (its task ended, or it was skipped at dequeue)
C13_SecondWaitsForFirst ==
    PER_USER_CONCURRENCY = 1 =>
        \A j, k \in JobIds :
            (j < k /\ user_id[j] = user_id[k] /\ user_id[k] # 0
             /\ (Has(status[k], "Provisioning") \/ Has(ops[k], "provision"))) =>
                /\ Len(Terminals(j)) > 0
                /\ pc[j] \in {"finished", "skipped"}

\* the limits are 1 per user and 2 globally, the first job of a user is Done
\* and its task has ended, and the second job of that user is provisioning
C13_Witness ==
    /\ PER_USER_CONCURRENCY = 1 /\ MAX_COMPOSERS = 2
    /\ \E j, k \in JobIds :
           /\ j < k /\ user_id[j] = user_id[k]
           /\ Terminals(j) = <<"Done">> /\ Ended(j)
           /\ pc[k] = "provisioning"

\* slots of the global semaphore held: one by every task between its creation
\* and the end of its outer finally, one by the dispatch loop while it waits
\* for a user's slot
GlobalHeld == Cardinality(Running) + (IF disp.pc = "acq_user" THEN 1 ELSE 0)

\* C14: every task gives back its global slot and its user's slot exactly
\* once and leaves both tables, on every exit path: each semaphore's value is
\* its limit minus the slots held, so it never exceeds the limit; a job whose
\* task ended or that was skipped is in neither table; and when no task runs
\* and the dispatch loop holds no job, both semaphores are back at their
\* limits and the tables hold queued jobs only
C14_SlotsReleasedOnce ==
    /\ global_sem = MAX_COMPOSERS - GlobalHeld
    /\ global_sem <= MAX_COMPOSERS
    /\ \A u \in UserIds :
          user_sems[u] # Absent =>
              /\ user_sems[u] = PER_USER_CONCURRENCY - Cardinality(RunningOf(u))
              /\ user_sems[u] <= PER_USER_CONCURRENCY
    /\ \A j \in JobIds :
          pc[j] \in {"finished", "skipped"} => (j \notin jobs /\ j \notin tasks)
    /\ tasks = Running
    /\ (Running = {} /\ disp.job = 0) =>
          /\ global_sem = MAX_COMPOSERS
          /\ \A u \in UserIds : user_sems[u] \in {Absent, PER_USER_CONCURRENCY}
          /\ tasks = {}
          /\ jobs = {j \in JobIds : pc[j] = "queued"}

\* all jobs are over, by different exit paths (a timeout, a cancellation, a
\* failed close of the connection), and everything is given back
C14_Witness ==
    /\ MAX_COMPOSERS = 2
    /\ \A j \in SpecJobIds : Ended(j)
    /\ \E j, k \in JobIds :
          /\ exc[j] \in {"TimeoutError", "CloseError"}
          /\ Terminals(k) = <<"Canceled">>
          /\ user_id[j] = user_id[k]
    /\ global_sem = MAX_COMPOSERS
    /\ jobs = {} /\ tasks = {}

\* positions of a job in the teardown of _run_job: the inner finally, the
\* outer finally, and the wait for destroy_composer
TeardownPcs == {"inner_finally", "outer_finally", "destroying"}

\* C15 as stated: once a terminal outcome of a job is reported, no teardown
\* step of the job reports another one, whether the step fails or not, and
\* the teardown goes on to its end
C15_TeardownKeepsOutcome ==
    [][\A j \in JobIds :
         (pc[j] \in TeardownPcs /\ Len(Terminals(j)) > 0) =>
             /\ SelectSeq(status'[j], IsTerminal) = Terminals(j)
             /\ pc'[j] \in TeardownPcs \cup {"finished"}]_vars

\* a task has been created for the job
Started(j) == pc[j] \in RunnerPcs \cup {"finished"}

\* C16: tasks are created in the order of submission, skipped jobs aside: a
\* job has a task only if every job submitted before it has one or was
\* skipped at dequeue; so while the dispatch loop waits for a slot for one
\* job, no job behind it is started
C16_FifoAdmission ==
    /\ \A j, k \in JobIds :
          (j < k /\ Started(k)) => (Started(j) \/ pc[j] = "skipped")
    /\ disp.job # 0 => \A k \in JobIds : k > disp.job => ~Started(k)

\* the dispatch loop waits for the slot of one user while a job of another
\* user, whose slot is free, is queued behind and a global slot is free too
C16_Witness ==
    /\ disp.pc = "acq_user"
    /\ global_sem > 0
    /\ queue # <<>>
    /\ user_id[Head(queue)] # user_id[disp.job]
    /\ user_sems[user_id[Head(queue)]] = Absent

\* a step is a call of Scheduler.cancel_job
CancelJobCalled == cancel_ret' # cancel_ret \/ ncancel' # ncancel

\* C17: a call of cancel_job returns true and sets the job's flag exactly when
\* the job is in the live-job mapping, and otherwise returns false and changes
\* nothing; it never touches the queue, the semaphores or the two tables; and
\* no step ever clears a flag
C17_CancelJobEffect ==
    [][/\ cancel_event \subseteq cancel_event'
       /\ CancelJobCalled =>
            LET j == cancel_ret'.job IN
            /\ cancel_ret'.ok = (j \in jobs)
            /\ cancel_event' = IF j \in jobs THEN cancel_event \cup {j}
                                ELSE cancel_event
            /\ UNCHANGED <<queue, global_sem, user_sems, jobs, tasks>>
            /\ j \notin jobs => UNCHANGED <<status, pc, ops, disp, cancel_at>>]_vars

\* cancel_job has returned false for a job whose task has ended, after it had
\* returned true for a job that is still queued and keeps its flag
C17_Witness ==
    /\ cancel_ret.ok = FALSE /\ cancel_ret.job # 0
    /\ pc[cancel_ret.job] = "finished"
    /\ \E k \in JobIds : k \in cancel_event /\ pc[k] = "queued" /\ k \in jobs

\* a step is cancel_callback handling a request of a user for a live job
CallbackHandled ==
    (ncancel' # ncancel \/ nrefused' # nrefused) /\ last_req'.user # 0

\* C18: a cancel request made by a user other than the job's submitter leaves
\* the job's flag and its status message as they are; so every flag set and
\* every "Canceling" edit by cancel_callback is made for the submitter
C18_OnlyOwnerCancels ==
    [][CallbackHandled =>
         LET j == last_req'.job IN
         /\ last_req'.user # user_id[j] =>
                /\ (j \in cancel_event') = (j \in cancel_event)
                /\ status'[j] = status[j]
                /\ UNCHANGED <<cancel_event, status, pc, sched>>
         /\ (cancel_event' # cancel_event \/ status' # status) =>
                last_req'.user = user_id[j]]_vars

\* the request of another user for a running job was refused: the job's flag
\* is not set and its status message shows no "Canceling"
C18_Witness ==
    /\ nrefused > 0
    /\ last_req.user # user_id[last_req.job]
    /\ pc[last_req.job] = "transcribing"
    /\ last_req.job \notin cancel_event
    /\ ~Has(status[last_req.job], "Canceling")

\* C19 as stated: once shutdown() has been called no task is created for a
\* job submitted after the call, and the call itself changes nothing of any
\* job: no position, no flag, no table entry
C19_NoStartAfterShutdown ==
    [][/\ \A j \in late' : pc'[j] \notin RunnerPcs \cup {"finished"}
       /\ (stop_event' /\ ~stop_event) =>
              UNCHANGED <<pc, tasks, jobs, cancel_event, status, ops, disp>>]_vars

\* C20: a warming cycle starts only on a tick at which the idle threshold has
\* elapsed since the last recorded warming activity and the queue is empty;
\* on a tick at which a job is in the queue no cycle starts and nothing of the
\* warmer but its sleep changes
C20_WarmOnlyWhenIdle ==
    [][/\ ncycles' # ncycles =>
            (now - last_cache_warm_ts > WarmInterval /\ queue = <<>>)
       /\ (warmer.pc = "sleeping" /\ warmer' # warmer /\ queue # <<>>) =>
            (ncycles' = ncycles /\ warmer'.pc = "sleeping"
             /\ last_cache_warm_ts' = last_cache_warm_ts)]_vars

\* the last tick found the idle threshold elapsed and a job in the queue: no
\* cycle was started
C20_Witness ==
    /\ warmer.held /\ warmer.pc = "sleeping"
    /\ queue # <<>>
    /\ ncycles = 0
    /\ now - last_cache_warm_ts > WarmInterval

\* a step is Scheduler.run creating the task of a job
TaskCreated == tasks' # tasks /\ tasks \subseteq tasks'

\* C21 as stated: every step in which the dispatch loop creates a job's task
\* records the time in last_cache_warm_ts, and no warming cycle starts within
\* the idle threshold after the last such step
C21_DispatchResetsIdleTimer ==
    [][/\ TaskCreated => last_cache_warm_ts' = now
       /\ ncycles' # ncycles => now - last_dispatch_ts > WarmInterval]_vars

\* a step ends a warming cycle in which a failure was logged: the task goes
\* to its sleep of 60 seconds
FailedCycleEnds == warmer'.pc = "sleeping" /\ warmer'.failed /\ warmer' # warmer

\* C22 as stated: a warming cycle that failed, with a throwaway worker or
\* with the local script, leaves last_cache_warm_ts as it was and the task in
\* its loop, so the tick after the sleep finds the idle threshold still
\* elapsed
C22_FailureKeepsIdleTimer ==
    [][FailedCycleEnds =>
         /\ last_cache_warm_ts' = last_cache_warm_ts
         /\ now' - last_cache_warm_ts' > WarmInterval]_vars

\* a bot call of _send_transcript_reply that writes a message / an attachment
IsFinalMessage(c) == c.by = "reply" /\ c.method # "send_document"
IsAttachment(c) == c.by = "reply" /\ c.method = "send_document"

FinalMessages == SelectSeq(bot_calls, IsFinalMessage)
Attachments == SelectSeq(bot_calls, IsAttachment)

\* handle_media has submitted the job
JobCreated == reply_pc \notin {"none", "aborted"}

\* the first bot call of _send_transcript_reply has gone through
MessageDelivered == reply_pc \in {"attaching", "returned"}

\* C23: a job has a preliminary message and a preliminary task exactly when
\* its model is turbo; and a non-empty final transcript is written by exactly
\* one call, which edits the preliminary message if the job has one and sends
\* a new message in reply to the original one otherwise
C23_EditInPlaceOrSend ==
    /\ JobCreated =>
          /\ (preliminary_message_id # 0) = (model = "turbo")
          /\ (preliminary_task # "none") = (model = "turbo")
    /\ ~JobCreated => (preliminary_message_id = 0 /\ preliminary_task = "none")
    /\ (MessageDelivered /\ strip(transcript_text) # <<>>) =>
          /\ Len(FinalMessages) = 1
          /\ FinalMessages[1].kind = "transcript"
          /\ FinalMessages[1].message_id = preliminary_message_id
          /\ FinalMessages[1].method =
                 IF model = "turbo" THEN "edit_message_text" ELSE "send_message"

\* the final transcript of a turbo job was written into the preliminary
\* message after the preliminary task had written its own text there
C23_Witness ==
    /\ reply_pc = "returned"
    /\ model = "turbo"
    /\ preliminary_task = "done"
    /\ Len(bot_calls) = 3
    /\ bot_calls[2].kind = "preliminary_transcript"
    /\ bot_calls[3].method = "edit_message_text"
    /\ bot_calls[3].kind = "transcript"
    /\ bot_calls[3].message_id = preliminary_message_id

C25_NoSpeechNotice ==
    LET text == strip(transcript_text) IN
    /\ \A i \in 1..Len(bot_calls) :
          (bot_calls[i].by = "reply" /\ bot_calls[i].kind = "transcript") =>
              bot_calls[i].text # <<>>
    /\ (reply_pc \in {"replying", "attaching", "returned", "raised"} /\ text = <<>>) =>
          /\ Attachments = <<>>
          /\ reply_pc # "attaching"
          /\ \A i \in 1..Len(FinalMessages) : FinalMessages[i].kind = "no_speech"
          /\ reply_pc = "returned" => Len(FinalMessages) = 1
    /\ (\E i \in 1..Len(FinalMessages) : FinalMessages[i].kind = "no_speech") =>
          text = <<>>

\* a transcript of blanks only was answered with the notice, sent as a new
\* message
C25_Witness ==
    /\ reply_pc = "returned"
    /\ Len(transcript_text) = MaxTextLen
    /\ strip(transcript_text) = <<>>
    /\ model = "tiny"
    /\ Len(bot_calls) = 1
    /\ bot_calls[1].kind = "no_speech"
    /\ bot_calls[1].method = "send_message"

\* the progress texts, in the order _run_job writes them
Progress == <<"Queued", "Provisioning", "Connecting", "Uploading", "Transcribing">>

\* "Canceling" is written by cancel_callback, everything else by handle_media,
\* Scheduler.run and _run_job
NotCanceling(t) == t # "Canceling"

\* the status texts of job j written by the scheduler or the runner, in order
RunnerEdits(j) == SelectSeq(status[j], NotCanceling)

\* C26 as stated: the texts written to a job's status message by the
\* scheduler and the runner are the first few of Queued, Provisioning,
\* Connecting, Uploading, Transcribing, in that order and each once, followed
\* by at most one terminal text, which is the last one; and once the job's
\* task has ended or the job was skipped, the terminal text is there
C26_StatusSequence ==
    \A j \in JobIds :
        LET s == RunnerEdits(j) IN
        /\ \A i \in 1..Len(s) :
              IF IsTerminal(s[i]) THEN i = Len(s)
              ELSE i <= Len(Progress) /\ s[i] = Progress[i]
        /\ pc[j] \in {"finished", "skipped"} =>
              (s # <<>> /\ IsTerminal(s[Len(s)]))

\* the composer command of job j ran into JOB_TIMEOUT_SEC
JobTimeoutExpired(j) == proc[j].timed_out

\* C27 as stated: a job whose composer command ran into JOB_TIMEOUT_SEC is
\* reported with the timeout text; a job that failed by a remote command's
\* non-zero exit is reported with another text; and the timeout text is
\* reported for no job whose composer command did not run into
\* JOB_TIMEOUT_SEC
C27_TimeoutReportedDistinctly ==
    \A j \in JobIds :
        /\ (JobTimeoutExpired(j) /\ pc[j] \in AfterExcept) =>
               Has(status[j], "Failed:timeout")
        /\ (exc[j] = "RemoteCommandFailure" /\ pc[j] \in AfterExcept) =>
               /\ Has(status[j], "Failed:internal")
               /\ ~Has(status[j], "Failed:timeout")
        /\ Has(status[j], "Failed:timeout") => JobTimeoutExpired(j)

\* the calls of the protocol steps, and those of the teardown
ProtocolOps == {"provision", "connect", "mkdir", "scp", "transcribe", "cat",
                "deliver"}
TeardownOps == {"rm", "close", "destroy"}

\* after the step, a protocol step of job j has failed: an exception was
\* raised in _run_job, or the composer command ended other than with a
\* result whose ok is true and that names a transcript
StepFailedAfter(j) ==
    \/ exc'[j] # "none"
    \/ proc'[j] # NoProc /\ run_ssh_command_with_json(proc'[j]) # "ok"

\* C28: once a protocol step of a job has failed, every call made for the job,
\* in the failing step and ever after, is a teardown call (rm -rf, close,
\* destroy), the job is in its teardown or through with it, and nothing is
\* retried: each protocol call is made at most once per job
C28_FailureAbortsJob ==
    [][\A j \in JobIds :
         /\ StepFailedAfter(j) =>
              /\ \A i \in (Len(ops[j]) + 1)..Len(ops'[j]) :
                     ops'[j][i] \in TeardownOps
              /\ pc'[j] \in TeardownPcs \cup {"finished"}
         /\ \A op \in ProtocolOps : Count(ops'[j], op) <= 1]_vars

\* a job whose upload failed has ended: nothing was called after scp but the
\* teardown, and another job's composer command failed by its exit status
C28_Witness ==
    \E j, k \in JobIds :
        /\ Ended(j)
        /\ ops[j] = <<"provision", "connect", "mkdir", "scp", "rm", "close",
                      "destroy">>
        /\ proc[k].exit # 0
        /\ Ended(k)
        /\ ~Has(ops[k], "cat")

\* the workers that exist on the grid for jobs: provision_composer has
\* returned an address and destroy_composer has not returned yet
JobWorkers == {j \in JobIds : vm_ip[j] /\ pc[j] # "finished"}

\* the same for the throwaway worker of the cache warmer
WarmerWorkers == IF warmer.up /\ warmer.pc # "sleeping" THEN 1 ELSE 0

\* C29 as stated: the workers of jobs and of the cache warmer that exist at
\* one time are never more than MAX_COMPOSERS
C29_WorkersWithinLimit ==
    Cardinality(JobWorkers) + WarmerWorkers <= MAX_COMPOSERS

\* a step ends a warming cycle that called provision_composer
DeployCycleEnds == warmer.pc # "sleeping" /\ warmer'.pc = "sleeping"

\* C30: a warming cycle that called provision_composer for a throwaway worker
\* ends, and the task goes to sleep before its next tick, only after exactly
\* one call of destroy_composer with that worker's name, whether
\* provisioning, the connection, the command or the close failed or not; and
\* destroy_composer is never called twice in a cycle
C30_WarmerDestroysOnce ==
    [][/\ warmer'.destroys <= 1
       /\ DeployCycleEnds =>
             /\ warmer.vm # 0
             /\ warmer'.vm = warmer.vm
             /\ warmer'.destroys = 1
       /\ (warmer.pc = "sleeping" /\ warmer'.pc # "sleeping") =>
             (warmer'.pc = "provisioning" /\ warmer'.destroys = 0
              /\ warmer'.vm # 0)]_vars

\* two cycles with a throwaway worker have ended, the last one by a failure
\* after its worker was up, and its worker was destroyed once
C30_Witness ==
    /\ CACHE_WARM_DEPLOY
    /\ ncycles = MaxCycles
    /\ warmer.pc = "sleeping"
    /\ warmer.failed
    /\ warmer.vm > WarmInterval + 1
    /\ warmer.destroys = 1


\* job k is still running on the worker provision_composer gave it
WorkerInUse(k) ==
    /\ vm_ip[k]
    /\ pc[k] \in {"connecting", "mkdir", "uploading", "transcribing",
                  "fetching", "delivering"}

\* the _run_job task of job j has called destroy_composer with job.vm_name
DestroyingWorker(j) == vm_name[j] /\ pc[j] = "destroying"

\* C31: worker names are never shared between jobs: two distinct job ids
\* yield distinct worker names, so that the destroy_composer call of one job
\* never names the worker another job is still running on
C31_WorkerNamesNotShared ==
    \A j, k \in SpecJobIds :
        (job_id[j] # job_id[k] /\ DestroyingWorker(j) /\ WorkerInUse(k))
            => worker_name(job_id[j]) # worker_name(job_id[k])


\* the _run_job task of job j, or the dequeue-time skip of job j, has finished
Over(j) == pc[j] \in {"finished", "skipped"}

\* job j is live from submit on for as long as no terminal outcome of it has
\* been reported
LiveUntilReported ==
    \A j \in JobIds : (pc[j] # "none" /\ Terminals(j) = <<>>) => j \in jobs

\* job j is in neither table once its runner or its skip has finished
GoneWhenOver ==
    \A j \in JobIds : Over(j) => (j \notin jobs /\ j \notin tasks)

\* an entry leaves a table only in the step that ends its own job
OwnEntryOnly ==
    \A j \in (jobs \ jobs') \cup (tasks \ tasks') : ~Over(j) /\ Over(j)'

\* C32: a job is in the live-job mapping from submit until its terminal
\* outcome has been reported, is in neither the live-job mapping nor the task
\* table once its runner (or the dequeue-time skip) has finished, and no task
\* removes an entry other than its own job's
C32_LiveJobBookkeeping ==
    /\ [](LiveUntilReported /\ GoneWhenOver)
    /\ [][OwnEntryOnly]_vars

\* one job has run to its end and left both tables, its outcome reported,
\* while another job is still live with its task running
C32_Witness ==
    \E j, k \in SpecJobIds :
        /\ j # k
        /\ Ended(j)
        /\ Terminals(j) # <<>>
        /\ j \notin jobs \cup tasks
        /\ k \in jobs \cap tasks


\* call c wrote the final transcript or the no-speech notice into message id
WritesFinalInto(c, id) ==
    /\ IsFinalMessage(c)
    /\ c.method = "edit_message_text"
    /\ c.message_id = id

\* call c is the edit of message id by _update_preliminary_transcript
PreliminaryEdit(c, id) == c.by = "preliminary" /\ c.message_id = id

\* C33: once the final transcript (or the no-speech notice) of a job has been
\* written into its preliminary message, the preliminary task never edits
\* that message afterwards, in any interleaving of the task and the runner
C33_FinalNotOverwritten ==
    \A i, k \in 1..Len(bot_calls) :
        (i < k /\ WritesFinalInto(bot_calls[i], preliminary_message_id))
            => ~PreliminaryEdit(bot_calls[k], preliminary_message_id)


\* C34: once a terminal status (Done, Failed or Canceled) of a job has been
\* written to its status message, no later edit replaces it; in particular a
\* cancel request that arrives while the runner is in teardown does not
\* overwrite it with "Canceling"
C34_TerminalStatusStays ==
    \A j \in JobIds : \A i \in 1..Len(status[j]) :
        IsTerminal(status[j][i]) => i = Len(status[j])

====
